---- MODULE Spec2Model ----
(***************************************************************************)
(* Model of neurio (src/src/neurio.c): a poller that fetches the current   *)
(* sample of a Neurio CT sensor over HTTP once per loop iteration and      *)
(* writes eleven readings to the variable server.                          *)
(*                                                                         *)
(* Bytes of the HTTP body are modelled as tokens (strings): "NUL" is the   *)
(* zero byte, "?" an uninitialised byte of a fresh allocation, "{" "}" an   *)
(* object without a channels member, "[" ... "]" an object whose channels  *)
(* member is the array of the channel objects between the brackets, "A"    *)
(* "B" "T" whole channel objects, "x" a byte that is not JSON.             *)
(***************************************************************************)
EXTENDS Integers, Sequences, FiniteSets, TLC

VARIABLES
    pc,          \* position of main(): see the actions below
    rxbuf,       \* state.rxbuf: [alloc, mem, size, len, remaining]
    lastOp,      \* last receive buffer operation, its outcome, bytes taken
    argv,        \* the command line (words after the command name)
    missing,     \* the variable names the variable server does not hold
    installed,   \* TerminationHandler registered with sigaction
    running,     \* state.running
    verbose,     \* state.verbose
    address,     \* state.address
    auth,        \* state.auth
    url,         \* state.url
    handles,     \* state.hL1V .. state.hTotEIn: TRUE when the lookup found it
    varserver,   \* the values held by the variable server
    res,         \* CURLcode of the last QueryNeurio
    neurio,      \* JNode returned by JSON_ProcessBuffer
    setLog,      \* the VAR_Set calls of the current iteration
    status,      \* return value of the last NeurioStatus
    sleepSecs,   \* argument of the last sleep()
    sigPc,       \* where main() was when TerminationHandler cleared the flag
    pollsAfterStop, \* QueryNeurio calls made with state.running false
    closeCount   \* VARSERVER_Close calls

vars == << pc, rxbuf, lastOp, argv, missing, installed, running, verbose, address,
           auth, url, handles, varserver, res, neurio, setLog,
           status, sleepSecs, sigPc, pollsAfterStop, closeCount >>

(***************************************************************************)
(* Bounds                                                                  *)
(***************************************************************************)
MaxChunk == 3      \* largest chunk handed to the write callback
MaxSize == 6       \* receive buffer operations stop growing past this size
MaxChannels == 3   \* longest channels array the sensor sends
MaxInterval == 2   \* largest -p argument on the command line

(***************************************************************************)
(* Receive buffer (RxBuffer, InitReceiveBuffer, WriteMemoryCallback)       *)
(***************************************************************************)
Fill(n, b) == [i \in 1..n |-> b]

\* memset( &state, 0, sizeof( state ) ) leaves the buffer unallocated
RxBufferZero ==
    [alloc |-> FALSE, mem |-> << >>, size |-> 0, len |-> 0, remaining |-> 0]

InitReceiveBufferKeepsLen(rx) ==
    LET sz == IF rx.alloc THEN rx.size ELSE 0
    IN  [alloc |-> rx.alloc,
         mem |-> IF rx.alloc THEN Fill(rx.size, "NUL") ELSE rx.mem,
         size |-> sz,
         len |-> rx.len,
         remaining |-> sz]

InitReceiveBuffer(rx) ==
    LET sz == IF rx.alloc THEN rx.size ELSE 0
    IN  [alloc |-> rx.alloc,
         mem |-> IF rx.alloc THEN Fill(rx.size, "NUL") ELSE rx.mem,
         size |-> sz,
         len |-> 0,
         remaining |-> sz]

\* realloc( p, n ): the old bytes are kept, the added ones are uninitialised
Realloc(mem, n) ==
    [i \in 1..n |-> IF i <= Len(mem) THEN mem[i] ELSE "?"]

\* memcpy( &p[offset], contents, n ) into a block of Len(mem) bytes
Memcpy(mem, offset, contents) ==
    [i \in 1..Len(mem) |->
        IF i > offset /\ i <= offset + Len(contents)
            THEN contents[i - offset]
            ELSE mem[i]]

NeedsGrowWhenFull(realsize, remaining) == realsize >= remaining

\* if ( realsize > pState->rxbuf.remaining )
NeedsGrow(realsize, remaining) == realsize > remaining

OutOfMemoryLosesBlock(rx) == [rx EXCEPT !.alloc = FALSE, !.mem = << >>]

\* the buffer after realloc returned NULL: the result went to the local ptr,
\* nothing of the buffer was assigned
OutOfMemory(rx) == rx

\* The callback for one chunk.  fault is "null" when the terminating NUL is
\* written through a NULL pointer, "oob" when it is written one byte past
\* the allocation, "none" otherwise.
WriteMemoryCallback(rx, contents, reallocOk) ==
    LET realsize == Len(contents)
        grow == NeedsGrow(realsize, rx.remaining)
    IN  IF grow /\ ~reallocOk
        THEN [rx |-> OutOfMemory(rx), ret |-> 0, consumed |-> FALSE,
              fault |-> "none"]
        ELSE
        LET g == IF grow
                    THEN [alloc |-> TRUE,
                          mem |-> Realloc(rx.mem, rx.size + realsize + 1),
                          size |-> rx.size + (realsize + 1),
                          len |-> rx.len,
                          remaining |-> rx.remaining + (realsize + 1)]
                    ELSE rx
            copied == Memcpy(g.mem, g.len, contents)
            newlen == g.len + realsize
            fault == IF ~g.alloc THEN "null"
                     ELSE IF newlen >= Len(copied) THEN "oob"
                     ELSE "none"
        IN  [rx |-> [alloc |-> g.alloc,
                     mem |-> IF fault = "none"
                                THEN [copied EXCEPT ![newlen + 1] = "NUL"]
                                ELSE copied,
                     size |-> g.size,
                     len |-> newlen,
                     remaining |-> g.remaining - realsize],
             ret |-> realsize, consumed |-> TRUE, fault |-> fault]

(***************************************************************************)
(* Command line (ProcessOptions, getopt with "hvu:a:")                     *)
(***************************************************************************)
DigitWord == << "1", "2", "3", "4" >>

\* the configuration main() starts ProcessOptions with
DefaultConfig ==
    [verbose |-> FALSE, address |-> "192.168.86.31", auth |-> "NULL",
     usage |-> FALSE]

\* getopt over the words from position i on; an option that "hvu:a:" does not
\* name, an option without its argument and a word that is no option fall to
\* the default case and change nothing.
RECURSIVE GetOpt(_, _, _)
GetOpt(words, i, cfg) ==
    IF i > Len(words) \/ cfg.usage THEN cfg
    ELSE IF words[i] = "-v"
        THEN GetOpt(words, i + 1, [cfg EXCEPT !.verbose = TRUE])
    ELSE IF words[i] = "-h"
        THEN [cfg EXCEPT !.usage = TRUE]
    ELSE IF words[i] = "-u" /\ i < Len(words)
        THEN GetOpt(words, i + 2, [cfg EXCEPT !.address = words[i + 1]])
    ELSE IF words[i] = "-a" /\ i < Len(words)
        THEN GetOpt(words, i + 2, [cfg EXCEPT !.auth = words[i + 1]])
    ELSE GetOpt(words, i + 1, cfg)

ProcessOptions(words) == GetOpt(words, 1, DefaultConfig)

\* asprintf( &state.url, "http://%s/current-sample", state.address )
MakeUrl(addr) == << "http://", addr, "/current-sample" >>

\* snprintf( auth, BUFSIZ, "Authorization: Basic %s", pState->auth )
MakeAuthHeader(cred) == << "Authorization: Basic ", cred >>

\* the value of the -p option of a command line, 0 when there is none
RECURSIVE PollOption(_, _)
PollOption(words, i) ==
    IF i >= Len(words) THEN 0
    ELSE IF words[i] = "-p"
        THEN CHOOSE n \in 1..Len(DigitWord) : DigitWord[n] = words[i + 1]
    ELSE PollOption(words, i + 1)

\* the word that follows option opt on a command line, "NULL" when the
\* option is not given
RECURSIVE OptionArg(_, _, _)
OptionArg(words, i, opt) ==
    IF i >= Len(words) THEN "NULL"
    ELSE IF words[i] = opt THEN words[i + 1]
    ELSE OptionArg(words, i + 1, opt)

CmdLines ==
    {<< >>, << "-h" >>, << "-v", "-u", "10.0.0.7", "-a", "YWRtaW46" >>}
    \cup {<< "-a", "192.168.86.31", "-u", "YWRtaW46", "-p", DigitWord[n] >> :
             n \in 1..MaxInterval}

(***************************************************************************)
(* The sample document (JSON_ProcessBuffer, JSON_Find, JSON_Index,         *)
(* JSON_GetVar as main() and NeurioStatus use them)                        *)
(***************************************************************************)
ChanBytes == {"A", "B", "T"}

ChanOrder == << "A", "B", "T" >>

FieldNames == {"p_W", "q_VAR", "v_V", "eImp_Ws"}

\* the fields a channel object carries: the total channel has no v_V
ChanFields(c) == IF c = "T" THEN FieldNames \ {"v_V"} ELSE FieldNames

ChanNo(c) == CHOOSE k \in 1..3 : ChanOrder[k] = c

FieldNo(f) == CASE f = "p_W" -> 1 [] f = "q_VAR" -> 2
                [] f = "v_V" -> 3 [] f = "eImp_Ws" -> 4

\* the number a channel object holds in a field: all different
FieldValue(c, f) == 10 * ChanNo(c) + FieldNo(f)

NullNode == [null |-> TRUE, hasChannels |-> FALSE, channels |-> << >>]

NullVar == [null |-> TRUE, val |-> 0]

Middle(text) == [i \in 1..(Len(text) - 2) |-> text[i + 1]]

JSON_ProcessBuffer(text) ==
    IF text = << "{", "}" >>
        THEN [null |-> FALSE, hasChannels |-> FALSE, channels |-> << >>]
    ELSE IF /\ Len(text) >= 2
            /\ text[1] = "[" /\ text[Len(text)] = "]"
            /\ \A i \in 1..(Len(text) - 2) : text[i + 1] \in ChanBytes
        THEN [null |-> FALSE, hasChannels |-> TRUE, channels |-> Middle(text)]
    ELSE NullNode

\* JSON_Find( pNode, "channels" ): the array, or NULL
JSON_Find(node) ==
    [null |-> node.null \/ ~node.hasChannels,
     items |-> IF node.null \/ ~node.hasChannels THEN << >>
               ELSE node.channels]

\* JSON_Index( channels, idx ): the idx-th element counted from 0, or NULL
JSON_Index(array, idx) ==
    IF array.null \/ idx + 1 > Len(array.items)
        THEN [null |-> TRUE, chan |-> "x"]
        ELSE [null |-> FALSE, chan |-> array.items[idx + 1]]

\* JSON_GetVar( pNode, name ): the value of the field, or NULL
JSON_GetVar(elem, name) ==
    IF elem.null \/ name \notin ChanFields(elem.chan)
        THEN NullVar
        ELSE [null |-> FALSE, val |-> FieldValue(elem.chan, name)]

Doc(chans) == << "[" >> \o chans \o << "]" >>

\* the first n channel objects a sensor sends: line 1, line 2, total, ...
Sample(n) == [i \in 1..n |-> ChanOrder[((i - 1) % 3) + 1]]

\* a sample whose third channel object carries v_V like the first two
FullSample == << "A", "B", "A" >>

\* what the sensor may answer: nothing, an error page, a document without
\* channels, the sample with 0..MaxChannels channel objects, the sample whose
\* total carries a voltage
Bodies ==
    {<< >>, << "x" >>, << "{", "}" >>}
    \cup {Doc(Sample(n)) : n \in 0..MaxChannels}
    \cup {Doc(FullSample)}

\* every document of up to MaxChannels channel objects in any order
ChannelLists == UNION {[1..n -> ChanBytes] : n \in 0..MaxChannels}

Documents ==
    {NullNode, [null |-> FALSE, hasChannels |-> FALSE, channels |-> << >>]}
    \cup {[null |-> FALSE, hasChannels |-> TRUE, channels |-> c] :
             c \in ChannelLists}

(***************************************************************************)
(* Variable server (SetupVarHandles, VAR_FindByName, VAR_Set)              *)
(***************************************************************************)
HandleNames == {"hL1V", "hL1P", "hL1Q", "hL1EIn", "hL2V", "hL2P", "hL2Q",
                "hL2EIn", "hTotP", "hTotQ", "hTotEIn"}

VarNameTotalV(h) ==
    CASE h = "hL1V" -> "/CONSUMPTION/L1/V"
      [] h = "hL1P" -> "/CONSUMPTION/L1/P"
      [] h = "hL1Q" -> "/CONSUMPTION/L1/Q"
      [] h = "hL1EIn" -> "/CONSUMPTION/L1/ENERGY_IMP"
      [] h = "hL2V" -> "/CONSUMPTION/L2/V"
      [] h = "hL2P" -> "/CONSUMPTION/L2/P"
      [] h = "hL2Q" -> "/CONSUMPTION/L2/Q"
      [] h = "hL2EIn" -> "/CONSUMPTION/L2/ENERGY_IMP"
      [] h = "hTotP" -> "/CONSUMPTION/TOTAL/P"
      [] h = "hTotQ" -> "/CONSUMPTION/TOTAL/V"
      [] h = "hTotEIn" -> "/CONSUMPTION/TOTAL/ENERGY_IMP"

\* the name each handle is looked up by
VarName(h) ==
    CASE h = "hL1V" -> "/CONSUMPTION/L1/V"
      [] h = "hL1P" -> "/CONSUMPTION/L1/P"
      [] h = "hL1Q" -> "/CONSUMPTION/L1/Q"
      [] h = "hL1EIn" -> "/CONSUMPTION/L1/ENERGY_IMP"
      [] h = "hL2V" -> "/CONSUMPTION/L2/V"
      [] h = "hL2P" -> "/CONSUMPTION/L2/P"
      [] h = "hL2Q" -> "/CONSUMPTION/L2/Q"
      [] h = "hL2EIn" -> "/CONSUMPTION/L2/ENERGY_IMP"
      [] h = "hTotP" -> "/CONSUMPTION/TOTAL/P"
      [] h = "hTotQ" -> "/CONSUMPTION/TOTAL/Q"
      [] h = "hTotEIn" -> "/CONSUMPTION/TOTAL/ENERGY_IMP"

VarNames == {VarName(h) : h \in HandleNames} \cup {"/CONSUMPTION/TOTAL/V"}

\* VAR_FindByName: the handle of the variable, VAR_INVALID when the server
\* has no variable of that name
VAR_FindByName(absent, name) ==
    IF name \in absent THEN "VAR_INVALID" ELSE name

SetupVarHandles(absent) ==
    [h \in HandleNames |-> VAR_FindByName(absent, VarName(h))]

\* memset( &state, 0, sizeof( state ) ): every handle is VAR_INVALID (0)
NoHandles == [h \in HandleNames |-> "VAR_INVALID"]

\* VAR_Set( hVarServer, hVar, pVarObject )
VAR_Set(store, hVar, obj) ==
    IF hVar = "VAR_INVALID" \/ obj.null
        THEN [store |-> store, rc |-> "EINVAL"]
        ELSE [store |-> [store EXCEPT ![hVar] = obj.val], rc |-> "EOK"]

SetOrderCrossed ==
    << [h |-> "hL1P", idx |-> 0, field |-> "p_W"],
       [h |-> "hL1Q", idx |-> 0, field |-> "q_VAR"],
       [h |-> "hL1V", idx |-> 0, field |-> "v_V"],
       [h |-> "hL1EIn", idx |-> 0, field |-> "eImp_Ws"],
       [h |-> "hL2P", idx |-> 1, field |-> "p_W"],
       [h |-> "hL2Q", idx |-> 1, field |-> "q_VAR"],
       [h |-> "hL2V", idx |-> 1, field |-> "v_V"],
       [h |-> "hL2EIn", idx |-> 1, field |-> "eImp_Ws"],
       [h |-> "hTotP", idx |-> 2, field |-> "p_W"],
       [h |-> "hTotQ", idx |-> 1, field |-> "q_VAR"],
       [h |-> "hTotEIn", idx |-> 2, field |-> "eImp_Ws"] >>

\* the eleven VAR_Set calls of NeurioStatus in the order of the code
SetOrder ==
    << [h |-> "hL1P", idx |-> 0, field |-> "p_W"],
       [h |-> "hL1Q", idx |-> 0, field |-> "q_VAR"],
       [h |-> "hL1V", idx |-> 0, field |-> "v_V"],
       [h |-> "hL1EIn", idx |-> 0, field |-> "eImp_Ws"],
       [h |-> "hL2P", idx |-> 1, field |-> "p_W"],
       [h |-> "hL2Q", idx |-> 1, field |-> "q_VAR"],
       [h |-> "hL2V", idx |-> 1, field |-> "v_V"],
       [h |-> "hL2EIn", idx |-> 1, field |-> "eImp_Ws"],
       [h |-> "hTotP", idx |-> 2, field |-> "p_W"],
       [h |-> "hTotQ", idx |-> 2, field |-> "q_VAR"],
       [h |-> "hTotEIn", idx |-> 2, field |-> "eImp_Ws"] >>

NextSetUntilError(rc) == rc = "EOK"

\* whether NeurioStatus goes on to the next VAR_Set after one returned rc:
\* the return value is not looked at
NextSet(rc) == TRUE

RECURSIVE SetAll(_, _, _, _, _)
SetAll(i, channels, hnd, store, log) ==
    IF i > Len(SetOrder) THEN [store |-> store, log |-> log]
    ELSE
    LET e == SetOrder[i]
        obj == JSON_GetVar(JSON_Index(channels, e.idx), e.field)
        r == VAR_Set(store, hnd[e.h], obj)
        l == Append(log, [h |-> e.h, arg |-> obj, rc |-> r.rc])
    IN  IF NextSet(r.rc)
            THEN SetAll(i + 1, channels, hnd, r.store, l)
            ELSE [store |-> r.store, log |-> l]

NeurioStatus(node, hnd, store) ==
    IF node.null
        THEN [store |-> store, log |-> << >>, result |-> "EINVAL"]
        ELSE LET r == SetAll(1, JSON_Find(node), hnd, store, << >>)
             IN  [store |-> r.store, log |-> r.log, result |-> "EOK"]

\* the variables README.md creates under a misspelt name (/comsumption/...)
Misspelt == {"/CONSUMPTION/L1/P", "/CONSUMPTION/L2/P", "/CONSUMPTION/TOTAL/P"}

\* the variable server of a run: every variable created, or the README's
MissingChoices == {{}, Misspelt}

\* any of the eleven variables may be absent
MissingSets == SUBSET {VarName(h) : h \in HandleNames}

StoreZero == [n \in VarNames |-> 0]

(***************************************************************************)
(* main(): startup                                                         *)
(***************************************************************************)
\* sent: the bytes the callbacks have taken since the last reset
NoOp ==
    [op |-> "none", ret |-> 0, consumed |-> FALSE, fault |-> "none",
     sent |-> << >>]

\* the state object after memset and state.address = ADDRESS
StateZero ==
    /\ rxbuf = RxBufferZero
    /\ lastOp = NoOp
    /\ verbose = DefaultConfig.verbose
    /\ address = DefaultConfig.address
    /\ auth = DefaultConfig.auth
    /\ url = << >>
    /\ res = "none"
    /\ setLog = << >>
    /\ status = "none"
    /\ sleepSecs = 0
    /\ sigPc = "none"
    /\ pollsAfterStop = 0
    /\ closeCount = 0
    /\ varserver = StoreZero

Init ==
    /\ pc = "start"
    /\ StateZero
    /\ argv \in CmdLines
    /\ missing \in MissingChoices
    /\ installed = FALSE
    /\ running = FALSE
    /\ handles = NoHandles
    /\ neurio = NullNode

\* argc < 2: usage and exit( 1 ); otherwise SetupTerminationHandler()
Main_CheckArgs ==
    /\ pc = "start"
    /\ IF Len(argv) < 1
          THEN /\ pc' = "exit"
               /\ UNCHANGED installed
          ELSE /\ pc' = "options"
               /\ installed' = TRUE
    /\ UNCHANGED << rxbuf, lastOp, argv, missing, running, verbose, address, auth, url,
                    handles, varserver, res, neurio, setLog,
                    status, sleepSecs, sigPc, pollsAfterStop, closeCount >>

Main_ProcessOptions ==
    /\ pc = "options"
    /\ LET cfg == ProcessOptions(argv)
       IN  /\ pc' = IF cfg.usage THEN "exit" ELSE "url"
           /\ verbose' = cfg.verbose
           /\ address' = cfg.address
           /\ auth' = cfg.auth
    /\ UNCHANGED << rxbuf, lastOp, argv, missing, installed, running, url, handles,
                    varserver, res, neurio, setLog, status,
                    sleepSecs, sigPc, pollsAfterStop, closeCount >>

\* asprintf of the url; rc > 0 sets state.running, otherwise main returns
Main_Url ==
    /\ pc = "url"
    /\ \E ok \in BOOLEAN :
         IF ok THEN /\ url' = MakeUrl(address)
                    /\ running' = TRUE
                    /\ pc' = "open"
               ELSE /\ pc' = "returned"
                    /\ UNCHANGED << url, running >>
    /\ UNCHANGED << rxbuf, lastOp, argv, missing, installed, verbose, address, auth,
                    handles, varserver, res, neurio, setLog,
                    status, sleepSecs, sigPc, pollsAfterStop, closeCount >>

\* VARSERVER_Open: NULL makes main return
Main_Open ==
    /\ pc = "open"
    /\ \E ok \in BOOLEAN : pc' = IF ok THEN "setup" ELSE "returned"
    /\ UNCHANGED << rxbuf, lastOp, argv, missing, installed, running, verbose, address,
                    auth, url, handles, varserver, res, neurio,
                    setLog, status, sleepSecs, sigPc, pollsAfterStop,
                    closeCount >>

Main_SetupVarHandles ==
    /\ pc = "setup"
    /\ handles' = SetupVarHandles(missing)
    /\ pc' = "test"
    /\ UNCHANGED << rxbuf, lastOp, argv, missing, installed, running, verbose, address,
                    auth, url, varserver, res, neurio, setLog,
                    status, sleepSecs, sigPc, pollsAfterStop, closeCount >>

(***************************************************************************)
(* main(): the poll loop                                                   *)
(***************************************************************************)
LoopContinuesAlways(run) == TRUE

LoopContinuesIfPolled(run) == run /\ res \in {"none", "CURLE_OK"}

\* the loop condition: while( state.running )
LoopContinues(run) == run

Main_LoopTest ==
    /\ pc = "test"
    /\ pc' = IF LoopContinues(running) THEN "sleep" ELSE "close"
    /\ UNCHANGED << rxbuf, lastOp, argv, missing, installed, running, verbose, address,
                    auth, url, handles, varserver, res, neurio,
                    setLog, status, sleepSecs, sigPc, pollsAfterStop,
                    closeCount >>

SleepArg(words) == 1

\* sleep(1): returns when the time is over or a signal handler has run
Main_Sleep ==
    /\ pc = "sleep"
    /\ sleepSecs' = SleepArg(argv)
    /\ pc' = "query"
    /\ res' = "none"
    /\ setLog' = << >>
    /\ status' = "none"
    /\ UNCHANGED << rxbuf, lastOp, argv, missing, installed, running, verbose, address,
                    auth, url, handles, varserver, neurio, sigPc,
                    pollsAfterStop, closeCount >>

\* curl_easy_perform with `rest` of the body still to come: the outcomes of
\* handing it to WriteMemoryCallback in chunks of 1..MaxChunk bytes (one
\* chunk of zero bytes when the body is empty).  The transfer can fail before,
\* between and after the chunks; a callback that returns 0 for a chunk ends
\* it with CURLE_WRITE_ERROR; a NUL written through a NULL pointer ends the
\* process; a NUL written behind the allocation is undefined: the process
\* ends or goes on.
RECURSIVE Perform(_, _, _)
Perform(rx, rest, first) ==
    {[rx |-> rx, res |-> "CURLE_FAILED", crashed |-> FALSE]}
    \cup (IF rest = << >>
             THEN {[rx |-> rx, res |-> "CURLE_OK", crashed |-> FALSE]}
             ELSE {})
    \cup UNION {
           LET chunk == SubSeq(rest, 1, n)
               tail == SubSeq(rest, n + 1, Len(rest))
               f == WriteMemoryCallback(rx, chunk, FALSE)
               r == WriteMemoryCallback(rx, chunk, TRUE)
           IN  (IF ~f.consumed
                   THEN {[rx |-> f.rx, res |-> "CURLE_WRITE_ERROR",
                          crashed |-> FALSE]}
                   ELSE {})
               \cup (IF r.fault # "none"
                        THEN {[rx |-> r.rx, res |-> "none", crashed |-> TRUE]}
                        ELSE {})
               \cup (IF r.fault # "null"
                        THEN Perform(r.rx, tail, FALSE)
                        ELSE {})
           : n \in {k \in 0..MaxChunk :
                      /\ k <= Len(rest)
                      /\ (k = 0 => first /\ rest = << >>)}}

\* QueryNeurio: InitReceiveBuffer, curl_easy_init, curl_easy_perform of one
\* answer of the sensor.  When curl_easy_init fails the function returns its
\* uninitialised res.
QueryNeurio ==
    /\ pc = "query"
    /\ UNCHANGED << lastOp, argv, missing, installed, running, verbose,
                    address, auth, url, handles, varserver, neurio, setLog,
                    status, sleepSecs, sigPc, closeCount >>
    /\ pollsAfterStop' = IF running THEN pollsAfterStop ELSE pollsAfterStop + 1
    /\ \E curl \in BOOLEAN :
         IF curl
            THEN \E b \in Bodies :
                 \E out \in Perform(InitReceiveBuffer(rxbuf), b, TRUE) :
                    /\ rxbuf' = out.rx
                    /\ res' = out.res
                    /\ pc' = IF out.crashed THEN "crashed" ELSE "parse"
            ELSE /\ rxbuf' = InitReceiveBuffer(rxbuf)
                 /\ \E r \in {"CURLE_OK", "CURLE_FAILED"} : res' = r
                 /\ pc' = "parse"

HasNul(mem) == \E i \in 1..Len(mem) : mem[i] = "NUL"

FirstNul(mem) ==
    CHOOSE i \in 1..Len(mem) :
        mem[i] = "NUL" /\ \A j \in 1..(i - 1) : mem[j] # "NUL"

\* the strings a reader of state.rxbuf.p can see: the bytes before the first
\* NUL; when the block holds no NUL the read runs past the allocation and
\* ends there or after bytes that are not part of the buffer
CStrings(rx) ==
    IF HasNul(rx.mem)
        THEN {SubSeq(rx.mem, 1, FirstNul(rx.mem) - 1)}
        ELSE {rx.mem, rx.mem \o << "x" >>}

\* neurio = JSON_ProcessBuffer( state.rxbuf.p ), whatever QueryNeurio returned
Main_ProcessBuffer ==
    /\ pc = "parse"
    /\ IF rxbuf.alloc
          THEN \E text \in CStrings(rxbuf) : neurio' = JSON_ProcessBuffer(text)
          ELSE neurio' = NullNode
    /\ pc' = "status"
    /\ UNCHANGED << rxbuf, lastOp, argv, missing, installed, running, verbose, address,
                    auth, url, handles, varserver, res, setLog,
                    status, sleepSecs, sigPc, pollsAfterStop, closeCount >>

\* NeurioStatus( &state, neurio ); JSON_Free( neurio )
Main_NeurioStatus ==
    /\ pc = "status"
    /\ pc' = "test"
    /\ UNCHANGED << rxbuf, lastOp, argv, missing, installed, running,
                    verbose, address, auth, url, handles, res, neurio,
                    sleepSecs, sigPc, pollsAfterStop, closeCount >>
    /\ \E r \in {NeurioStatus(neurio, handles, varserver)} :
         /\ varserver' = r.store
         /\ setLog' = r.log
         /\ status' = r.result

Main_ReturnUnclosed ==
    /\ pc = "close"
    /\ pc' = "returned"
    /\ UNCHANGED << rxbuf, lastOp, argv, missing, installed, running,
                    verbose, address, auth, url, handles, varserver, res,
                    neurio, setLog, status, sleepSecs, sigPc, pollsAfterStop,
                    closeCount >>

\* VARSERVER_Close( state.hVarServer ) and return
Main_Close ==
    /\ pc = "close"
    /\ closeCount' = closeCount + 1
    /\ pc' = "returned"
    /\ UNCHANGED << rxbuf, lastOp, argv, missing, installed, running, verbose, address,
                    auth, url, handles, varserver, res, neurio,
                    setLog, status, sleepSecs, sigPc, pollsAfterStop >>

\* the part of main() a position belongs to
Phase(at) ==
    IF at \in {"options", "url"} THEN "startup"
    ELSE IF at \in {"open", "setup"} THEN "opening"
    ELSE IF at = "sleep" THEN "sleep"
    ELSE IF at \in {"query", "parse", "status"} THEN "cycle"
    ELSE "boundary"

\* SIGTERM or SIGINT while the handler is registered and the process lives
TerminationHandler ==
    /\ installed
    /\ pc \notin {"exit", "returned", "crashed"}
    /\ running' = FALSE
    /\ sigPc' = IF running \/ sigPc = "none" THEN Phase(pc) ELSE sigPc
    /\ UNCHANGED << pc, rxbuf, lastOp, argv, missing, installed, verbose, address,
                    auth, url, handles, varserver, res, neurio, setLog,
                    status, sleepSecs, pollsAfterStop, closeCount >>

Next ==
    \/ Main_CheckArgs
    \/ Main_ProcessOptions
    \/ Main_Url
    \/ Main_Open
    \/ Main_SetupVarHandles
    \/ Main_LoopTest
    \/ Main_Sleep
    \/ QueryNeurio
    \/ Main_ProcessBuffer
    \/ Main_NeurioStatus
    \/ Main_Close
    \/ TerminationHandler

Spec == Init /\ [][Next]_vars

(***************************************************************************)
(* The receive buffer on its own: any sequence of InitReceiveBuffer and    *)
(* WriteMemoryCallback calls                                               *)
(***************************************************************************)
BufBytes == {"A", "x"}

BufChunks == UNION {[1..n -> BufBytes] : n \in 0..MaxChunk}

InitBuf ==
    /\ pc = "buffer"
    /\ StateZero
    /\ argv = << >>
    /\ missing = {}
    /\ installed = FALSE
    /\ running = FALSE
    /\ handles = NoHandles
    /\ neurio = NullNode

Buf_Reset ==
    /\ pc = "buffer"
    /\ rxbuf' = InitReceiveBuffer(rxbuf)
    /\ lastOp' = [NoOp EXCEPT !.op = "reset"]
    /\ UNCHANGED << pc, argv, missing, installed, running, verbose, address,
                    auth, url, handles, varserver, res, neurio,
                    setLog, status, sleepSecs, sigPc, pollsAfterStop,
                    closeCount >>

\* one call of the callback with any chunk; realloc succeeds or fails
Buf_Append ==
    /\ pc = "buffer"
    /\ \E chunk \in BufChunks, reallocOk \in BOOLEAN :
         LET r == WriteMemoryCallback(rxbuf, chunk, reallocOk)
         IN  /\ r.rx.size <= MaxSize
             /\ rxbuf' = r.rx
             /\ lastOp' = [op |-> "append", ret |-> r.ret,
                           consumed |-> r.consumed, fault |-> r.fault,
                           sent |-> IF r.consumed THEN lastOp.sent \o chunk
                                                  ELSE lastOp.sent]
             /\ \E crash \in BOOLEAN :
                  /\ r.fault = "null" => crash
                  /\ r.fault = "none" => ~crash
                  /\ pc' = IF crash THEN "crashed" ELSE "buffer"
    /\ UNCHANGED << argv, missing, installed, running, verbose, address,
                    auth, url, handles, varserver, res, neurio,
                    setLog, status, sleepSecs, sigPc, pollsAfterStop,
                    closeCount >>

NextBuf == Buf_Reset \/ Buf_Append

SpecBuf == InitBuf /\ [][NextBuf]_vars

(***************************************************************************)
(* NeurioStatus on its own: any document, any set of absent variables      *)
(***************************************************************************)
InitPub ==
    /\ pc = "status"
    /\ StateZero
    /\ argv = << "-v" >>
    /\ missing \in MissingSets
    /\ installed = TRUE
    /\ running = TRUE
    /\ handles = SetupVarHandles(missing)
    /\ neurio \in Documents

NextPub == Main_NeurioStatus \/ Main_LoopTest

SpecPub == InitPub /\ [][NextPub]_vars

(***************************************************************************)
(* The program when every step of main() that can be taken is taken: the   *)
(* sleep, the network call and the library calls return                    *)
(***************************************************************************)
MainStep ==
    \/ Main_CheckArgs
    \/ Main_ProcessOptions
    \/ Main_Url
    \/ Main_Open
    \/ Main_SetupVarHandles
    \/ Main_LoopTest
    \/ Main_Sleep
    \/ QueryNeurio
    \/ Main_ProcessBuffer
    \/ Main_NeurioStatus
    \/ Main_Close

\* one run: the variables all exist, the sensor address and credential are
\* given on the command line
InitFair ==
    /\ Init
    /\ argv = << "-v", "-u", "10.0.0.7", "-a", "YWRtaW46" >>
    /\ missing = {}

SpecFair == InitFair /\ [][Next]_vars /\ WF_vars(MainStep)

(***************************************************************************)
(* Properties                                                              *)
(***************************************************************************)
LoopPcs == {"test", "sleep", "query", "parse", "status"}

\* the document of the current iteration is not a sample of three channels
Malformed(node) ==
    node.null \/ ~node.hasChannels \/ Len(node.channels) < 3

\* a VAR_Set call of the current iteration returned an error
FailedWrite == \E i \in 1..Len(setLog) : setLog[i].rc # "EOK"

\* C1: after every append that took its chunk the buffer is allocated and
\* the terminating NUL at offset len lies inside the allocation (len < size).
\* The code writes the NUL at offset size when a chunk exactly fills the
\* remaining space, and through a NULL pointer for an empty first chunk.
C1_NulInside ==
    (lastOp.op = "append" /\ lastOp.consumed)
        => (rxbuf.alloc /\ rxbuf.len < rxbuf.size)

\* C2: when the document of an iteration is NULL (empty or non-JSON text),
\* has no channels array or has fewer than three channels, NeurioStatus
\* does not return success and makes no VAR_Set call.  The code makes all
\* eleven calls and returns EOK for every document that parses.
C2_NoWriteOnMalformed ==
    (status # "none" /\ Malformed(neurio))
        => (status = "EINVAL" /\ setLog = << >>)

\* C3: in an iteration whose QueryNeurio did not return CURLE_OK, the step
\* that follows JSON_ProcessBuffer makes no VAR_Set call, reports no
\* extraction and leaves every variable as it was.  The code ignores the
\* return value of QueryNeurio.
C3_NoPublishOnTransportFailure ==
    [][(pc = "status" /\ res # "CURLE_OK" /\ pc' # "status")
          => (setLog' = << >> /\ status' # "EOK" /\ varserver' = varserver)]_vars

\* C4 as claimed: once the handler has cleared the flag during the sleep,
\* no QueryNeurio call starts.
C4_NoPollAfterClear ==
    [][sigPc = "sleep" => ~(pc = "query" /\ pc' # "query")]_vars

\* C4 as amended: when the handler has cleared the flag during the sleep,
\* the poll of the iteration in progress is still made, and it is the only
\* one: no QueryNeurio call has been made while the loop is still asleep, at
\* most one is ever made, and exactly one has been made when the loop is
\* left.
C4_OnePollAfterClear ==
    sigPc = "sleep" =>
        /\ pollsAfterStop <= 1
        /\ (pc = "sleep" => pollsAfterStop = 0)
        /\ (pc \in {"close", "returned"} => pollsAfterStop = 1)

C4_Witness ==
    sigPc = "sleep" /\ pc = "returned" /\ pollsAfterStop = 1

\* the handle each variable is written through, the channel index and the
\* field its value comes from, as the README and the specification give them
PublishedFrom ==
    [hL1P |-> << 0, "p_W" >>, hL1Q |-> << 0, "q_VAR" >>,
     hL1V |-> << 0, "v_V" >>, hL1EIn |-> << 0, "eImp_Ws" >>,
     hL2P |-> << 1, "p_W" >>, hL2Q |-> << 1, "q_VAR" >>,
     hL2V |-> << 1, "v_V" >>, hL2EIn |-> << 1, "eImp_Ws" >>,
     hTotP |-> << 2, "p_W" >>, hTotQ |-> << 2, "q_VAR" >>,
     hTotEIn |-> << 2, "eImp_Ws" >>]

\* the first two channels carry the four fields, the third the three of the
\* total
WellFormed(node) ==
    /\ ~node.null /\ node.hasChannels /\ Len(node.channels) >= 3
    /\ \A h \in HandleNames :
         PublishedFrom[h][2] \in ChanFields(node.channels[PublishedFrom[h][1] + 1])

\* C5: after NeurioStatus has handled a document of at least three
\* well-formed channels, every variable that exists holds the field of the
\* channel the positional mapping names (L1 from channels[0], L2 from
\* channels[1], TOTAL from channels[2]); exactly one VAR_Set call was made
\* for each handle, with that value; the total voltage is untouched.
C5_PositionalMapping ==
    (status = "EOK" /\ WellFormed(neurio)) =>
        /\ \A h \in HandleNames :
             LET want == FieldValue(neurio.channels[PublishedFrom[h][1] + 1],
                                    PublishedFrom[h][2])
             IN  /\ (VarName(h) \notin missing => varserver[VarName(h)] = want)
                 /\ Cardinality({i \in 1..Len(setLog) : setLog[i].h = h}) = 1
                 /\ \A i \in 1..Len(setLog) :
                      setLog[i].h = h =>
                          (~setLog[i].arg.null /\ setLog[i].arg.val = want)
        /\ varserver["/CONSUMPTION/TOTAL/V"] = StoreZero["/CONSUMPTION/TOTAL/V"]
        /\ \A n \in missing : varserver[n] = StoreZero[n]

C5_Witness ==
    /\ status = "EOK"
    /\ neurio.channels = << "A", "B", "T" >>
    /\ missing = {}
    /\ varserver["/CONSUMPTION/L2/Q"] = FieldValue("B", "q_VAR")
    /\ varserver["/CONSUMPTION/TOTAL/Q"] = FieldValue("T", "q_VAR")

\* C6: once TerminationHandler has run, state.running stays false.  The
\* code sets state.running = true after the handler is registered.
C6_ClearNeverLost == sigPc # "none" => ~running

\* C7: with the flag cleared inside the loop, the loop test starts no new
\* iteration, VARSERVER_Close is called at most once, and, when the sleep and
\* the network call return (a process that dies inside curl_easy_perform
\* does not return from it), main() returns having closed the connection
\* once.
C7_StopsAndClosesOnce ==
    /\ [][(pc = "test" /\ ~running) => pc' \in {"test", "close"}]_vars
    /\ [](closeCount <= 1)
    /\ ((~running /\ pc \in LoopPcs)
           ~> ((pc = "returned" /\ closeCount = 1) \/ pc = "crashed"))

C7_Witness ==
    sigPc = "cycle" /\ ~running /\ pc = "returned" /\ closeCount = 1

\* C8: the loop sleeps for the number of seconds given with -p.  The code
\* has no -p option and always sleeps one second.
C8_SleepsForOption ==
    (pc = "query" /\ PollOption(argv, 1) # 0) => sleepSecs = PollOption(argv, 1)

\* C9: whatever variables are absent, NeurioStatus on a document makes a
\* VAR_Set call for every handle, one that failed is followed by the
\* remaining ones, every variable that exists and whose field the document
\* holds is written, and the loop goes on to its next iteration.
C9_AllHandlesAttempted ==
    (status # "none" /\ ~neurio.null) =>
        /\ \A h \in HandleNames : \E i \in 1..Len(setLog) : setLog[i].h = h
        /\ \A i \in 1..Len(setLog) :
             (handles[setLog[i].h] # "VAR_INVALID" /\ ~setLog[i].arg.null)
                 => /\ setLog[i].rc = "EOK"
                    /\ varserver[handles[setLog[i].h]] = setLog[i].arg.val
        /\ pc \in {"test", "sleep"}

C9_Witness ==
    /\ status = "EOK"
    /\ pc = "sleep"
    /\ handles["hL1P"] = "VAR_INVALID"
    /\ handles["hTotEIn"] # "VAR_INVALID"
    /\ \E i, j \in 1..Len(setLog) :
         i < j /\ setLog[i].rc = "EINVAL" /\ setLog[j].rc = "EOK"

\* an iteration in which the poll, the parse or a write failed
FailedCycle ==
    \/ res \notin {"none", "CURLE_OK"}
    \/ status = "EINVAL"
    \/ FailedWrite

\* C10: while state.running is set, an iteration in which the transport,
\* the parse, the extraction or a variable write failed stays in the loop:
\* every step after the failure leads to another position of the loop, and
\* the loop test leads to the next sleep.
C10_FailureKeepsLooping ==
    [][(pc \in {"parse", "status", "test"} /\ FailedCycle /\ running /\ running')
          => /\ pc' \in {"parse", "status", "test", "sleep"}
             /\ (pc = "test" /\ pc' # pc => pc' = "sleep")]_vars

C10_Witness ==
    pc = "sleep" /\ running /\ res = "CURLE_FAILED" /\ status = "EINVAL"

\* the eleven destination variables the specification names
Destinations ==
    {"/CONSUMPTION/L1/P", "/CONSUMPTION/L1/Q", "/CONSUMPTION/L1/V",
     "/CONSUMPTION/L1/ENERGY_IMP",
     "/CONSUMPTION/L2/P", "/CONSUMPTION/L2/Q", "/CONSUMPTION/L2/V",
     "/CONSUMPTION/L2/ENERGY_IMP",
     "/CONSUMPTION/TOTAL/P", "/CONSUMPTION/TOTAL/Q",
     "/CONSUMPTION/TOTAL/ENERGY_IMP"}

\* variable servers that hold other values than the one of the run
ProbeStores == {[n \in VarNames |-> v] : v \in {0, 7}}

\* C11: over all iterations of the loop, a step changes the value of no
\* variable outside the eleven destinations and the server holds no other
\* names; every VAR_Set call goes through a handle of one of the eleven (or
\* an invalid one); the total voltage keeps its value, also when channels[2]
\* carries v_V; and no value is read from the server: the calls of an
\* iteration, their arguments and the values they store are the same
\* whatever values the server held before.
C11_WritesOnlyEleven ==
    /\ [][/\ DOMAIN varserver' = DOMAIN varserver
          /\ \A n \in DOMAIN varserver :
               varserver'[n] # varserver[n] => n \in Destinations]_vars
    /\ [](\A i \in 1..Len(setLog) :
            handles[setLog[i].h] \in Destinations \cup {"VAR_INVALID"})
    /\ [](varserver["/CONSUMPTION/TOTAL/V"] = StoreZero["/CONSUMPTION/TOTAL/V"])
    /\ [](status # "none" =>
            \A s \in ProbeStores :
                LET r == NeurioStatus(neurio, handles, s)
                IN  /\ r.log = setLog
                    /\ \A i \in 1..Len(setLog) :
                         setLog[i].rc = "EOK" =>
                             r.store[handles[setLog[i].h]] = setLog[i].arg.val)

C11_Witness ==
    /\ status = "EOK"
    /\ pc = "sleep"
    /\ Len(neurio.channels) = 3
    /\ "v_V" \in ChanFields(neurio.channels[3])
    /\ varserver["/CONSUMPTION/TOTAL/Q"] = FieldValue(neurio.channels[3], "q_VAR")
    /\ varserver["/CONSUMPTION/L1/V"] = FieldValue(neurio.channels[1], "v_V")
    /\ varserver["/CONSUMPTION/TOTAL/V"] = 0

\* C12: on a command line that gives -a and -u, the loop polls the url
\* http://<argument of -a>/current-sample and the Authorization header is
\* built from the argument of -u.  The code stores the argument of -u as the
\* address and the argument of -a as the credential.
C12_OptionsAsDocumented ==
    (/\ pc \in LoopPcs
     /\ OptionArg(argv, 1, "-a") # "NULL"
     /\ OptionArg(argv, 1, "-u") # "NULL")
        => /\ url = MakeUrl(OptionArg(argv, 1, "-a"))
           /\ MakeAuthHeader(auth) = MakeAuthHeader(OptionArg(argv, 1, "-u"))

\* C13: a call of the callback whose realloc returned NULL returns 0 and
\* leaves the buffer (pointer and content, size, len, remaining) exactly as
\* it was before the call; the process goes on.
C13_FailedGrowthKeepsBuffer ==
    [][(lastOp'.op = "append" /\ ~lastOp'.consumed)
          => (lastOp'.ret = 0 /\ rxbuf' = rxbuf /\ pc' = pc)]_vars

C13_Witness ==
    /\ lastOp.op = "append"
    /\ ~lastOp.consumed
    /\ lastOp.ret = 0
    /\ rxbuf.alloc
    /\ rxbuf.len > 0
    /\ rxbuf.mem[1] = "A"

\* C14: over any sequence of InitReceiveBuffer and WriteMemoryCallback calls
\* the size of the allocation never decreases; a reset keeps the allocation
\* and its size; a callback whose chunk is not larger than the remaining
\* space, or whose realloc failed, keeps the size; a callback whose chunk is
\* larger than the remaining space adds exactly the chunk size + 1.
C14_CapacityMonotonic ==
    [][/\ rxbuf'.size >= rxbuf.size
       /\ lastOp'.op = "reset"
            => (rxbuf'.size = rxbuf.size /\ rxbuf'.alloc = rxbuf.alloc)
       /\ (lastOp'.op = "append" /\ ~lastOp'.consumed)
            => rxbuf'.size = rxbuf.size
       /\ (lastOp'.op = "append" /\ lastOp'.consumed)
            => rxbuf'.size = IF lastOp'.ret > rxbuf.remaining
                                THEN rxbuf.size + lastOp'.ret + 1
                                ELSE rxbuf.size]_vars

\* a chunk stored without growth in an allocation that two growths made and
\* a reset kept
C14_Witness ==
    /\ lastOp.op = "append"
    /\ lastOp.consumed
    /\ lastOp.ret = 2
    /\ rxbuf.len = 2
    /\ rxbuf.size = 5
    /\ rxbuf.remaining = 3

\* C15: after a reset and the callbacks that took the chunks of an exchange,
\* whatever the buffer held before, the buffer is allocated, its len is the
\* number of bytes taken and the string a reader finds at p is exactly those
\* bytes in order.  A chunk sequence that fills the allocation to its last
\* byte leaves no NUL inside it (C1), and the string then runs past it.
C15_ReplayGivesConcatenation ==
    (lastOp.op = "append" /\ lastOp.consumed) =>
        /\ pc = "buffer"
        /\ rxbuf.alloc
        /\ rxbuf.len = Len(lastOp.sent)
        /\ CStrings(rxbuf) = {lastOp.sent}

\* the same when the NUL of the last callback lies inside the allocation
C15_ExceptWhenFull ==
    (lastOp.op = "append" /\ lastOp.consumed /\ lastOp.fault = "none") =>
        /\ rxbuf.alloc
        /\ rxbuf.len = Len(lastOp.sent)
        /\ CStrings(rxbuf) = {lastOp.sent}

\* C16: after any sequence of InitReceiveBuffer calls and of callbacks that
\* stored their chunk or failed to grow the buffer, len + remaining = size,
\* and remaining (a size_t) has not been taken below zero: no callback
\* subtracts more than remaining holds.
C16_CountersAddUp ==
    lastOp.op # "none" =>
        /\ rxbuf.len + rxbuf.remaining = rxbuf.size
        /\ rxbuf.remaining >= 0
        /\ rxbuf.len >= 0
        /\ rxbuf.len <= rxbuf.size

\* a chunk took the last remaining byte of an allocation a reset had kept
C16_Witness ==
    /\ lastOp.op = "append"
    /\ lastOp.consumed
    /\ lastOp.ret = 1
    /\ rxbuf.remaining = 0
    /\ rxbuf.len = 3
    /\ rxbuf.size = 3

====
